---- MODULE Spec2Model ----
(***************************************************************************)
(* Model of the DACS training step (mmseg/models/uda/dacs.py) and of the   *)
(* per-class prototype memory bank it owns                                 *)
(* (mmseg/models/utils/proto_estimator.py).                                *)
(*                                                                         *)
(* Numbers that are real-valued in the program (feature means, trust       *)
(* weights, losses) are exact fractions <<n, d>> in lowest terms, d >= 1.  *)
(* A feature vector has one component (dim = 1).                           *)
(***************************************************************************)
EXTENDS Integers, Sequences, FiniteSets, TLC

\* ------------------------------------------------------------------ bounds
\* largest memory_length a ProtoEstimator is constructed with
MaxMemLen == 3
\* number of update_proto calls made on a stand-alone ProtoEstimator
MaxCalls == 4
\* largest number of rows per class in a resumed MemoryBank tensor
MaxSnapLen == 4
\* rows of the one-sample batch (images have one column)
ImgH == 3
\* training iterations the runner performs (cfg['max_iters'])
MaxIters == 51

\* ------------------------------------------------------- program constants
start_distribution_iter == 50

\* class ids 0..class_num-1
Classes == {0, 1}
\* values a feature component takes
FeatValues == {1, 2}
\* number of (pixel) features in one update_proto batch
BatchSizes == 0..2

\* ---------------------------------------------------------------- fractions
RECURSIVE GCD(_, _)
GCD(a, b) == IF b = 0 THEN a ELSE GCD(b, a % b)

\* n/d in lowest terms (n >= 0, d >= 1)
Frac(n, d) == LET g == GCD(n, d) IN IF n = 0 THEN <<0, 1>> ELSE <<n \div g, d \div g>>

FZero == <<0, 1>>
FOne == <<1, 1>>
FMul(a, b) == Frac(a[1] * b[1], a[2] * b[2])
FAdd(a, b) == Frac(a[1] * b[2] + b[1] * a[2], a[2] * b[2])

RECURSIVE SeqSum(_)
SeqSum(s) == IF s = <<>> THEN 0 ELSE Head(s) + SeqSum(Tail(s))

RECURSIVE FSeqSum(_)
FSeqSum(s) == IF s = <<>> THEN FZero ELSE FAdd(Head(s), FSeqSum(Tail(s)))

\* ------------------------------------------------------------------- state
VARIABLES
    memory_length,  \* ProtoEstimator: the memory_length argument
    bankKind,       \* "deque" (fresh), "tensor" (resumed), "none" (attribute unset)
    MemoryBank,     \* ProtoEstimator.MemoryBank: class id -> sequence of vectors
    pe_calls,       \* stand-alone update_proto calls made so far
    pe_features,    \* features argument of the last stand-alone call
    pe_labels,      \* labels argument of the last stand-alone call
    pe_result,      \* "none", "ok" (returned) or "raised"
    appended,       \* per class, the vectors the stand-alone calls appended, oldest first
    \* --- DACS
    cfg,            \* the configuration fixed at construction and the batch shape
    local_iter,     \* DACS.local_iter
    pc,             \* position inside forward_train, "idle" between calls
    outcome,        \* of the last call: "none", "running", "returned", "raised"
    raised_at,      \* the phase in which the last call raised
    iter0,          \* local_iter when the current / last call began
    bank0,          \* MemoryBank when the current / last call began
    n_returned,     \* forward_train calls that have returned so far
    n_updates,      \* update_proto calls made by the current / last call
    log_vars,       \* names of the loss terms in the dict forward_train returns
    backward,       \* names of the loss terms back-propagated in this call
    gt_semantic_seg,\* source label per pixel
    pseudo_prob,    \* teacher confidence per pixel
    pseudo_label,   \* teacher arg-max class per pixel
    n_trusted,      \* torch.sum(ps_large_p).item()
    pseudo_weight_, \* the trust scalar
    pseudo_weight,  \* the trust weight map before mixing
    mix_mask,       \* mix_masks[i] per pixel
    mixed_lbl,      \* mixed label per pixel
    mixed_weight,   \* pseudo_weight after the mixing loop rewrote it in place
    mix_loss,       \* the mixed segmentation loss
    mix_loss_trg,   \* the part of mix_loss contributed by target (mask 0) pixels
    kl_div,         \* F.kl_div(p_s_trg, p_t_trg) before scaling
    kl_loss_trg,    \* pseudo_weight_ * kl_div
    upd_features,   \* features handed to update_proto in this call
    upd_labels      \* labels handed to update_proto in this call

pevars == <<memory_length, bankKind, MemoryBank, pe_calls, pe_features, pe_labels,
            pe_result, appended>>

ctlvars == <<cfg, local_iter, pc, outcome, raised_at, iter0, bank0,
             n_returned, n_updates, log_vars, backward>>

pixvars == <<gt_semantic_seg, pseudo_prob, pseudo_label, n_trusted, pseudo_weight_,
             pseudo_weight, mix_mask, mixed_lbl, mixed_weight>>

lossvars == <<mix_loss, mix_loss_trg, kl_div, kl_loss_trg, upd_features, upd_labels>>

ctlvars_but_pc == <<cfg, local_iter, outcome, raised_at, iter0, bank0,
                    n_returned, n_updates, log_vars, backward>>

vars == <<pevars, ctlvars, pixvars, lossvars>>

\* ---------------------------------------------------------- ProtoEstimator
\* collections.deque(items, maxlen): keeps the last maxlen items
NewDeque(items, maxlen) ==
    IF Len(items) <= maxlen THEN items
    ELSE SubSeq(items, Len(items) - maxlen + 1, Len(items))

\* deque.append on a deque of maxlen: drops the oldest entry when full
DequeAppend_NoEvict(q, v, maxlen) == Append(q, v)
DequeAppend(q, v, maxlen) ==
    IF Len(q) < maxlen THEN Append(q, v)
    ELSE IF maxlen = 0 THEN <<>>
    ELSE Append(Tail(q), v)

\* row c of onehot: 1 where labels[i] = c
OneHot(labels, c) == [i \in 1..Len(labels) |-> IF labels[i] = c THEN 1 ELSE 0]

\* ave_CxA[c]: sum of the one-hot masked features over Amount, Amount 0 set to 1
ClassMean(features, labels, c) ==
    LET oh == OneHot(labels, c)
        bysort == [i \in 1..Len(features) |-> features[i] * oh[i]]
        amount == SeqSum(oh)
    IN  Frac(SeqSum(bysort), IF amount = 0 THEN 1 ELSE amount)

\* torch.unique(labels)
UniqueLabels(labels) == {labels[i] : i \in 1..Len(labels)}

\* the classes update_proto appends to
UpdatedClasses_All(labels) == Classes
UpdatedClasses(labels) == UniqueLabels(labels)

\* the MemoryBank after update_proto(features, labels) on a bank of deques
update_proto(bank, features, labels, maxlen) ==
    [c \in Classes |->
        IF c \in UpdatedClasses(labels)
        THEN DequeAppend(bank[c], ClassMean(features, labels, c), maxlen)
        ELSE bank[c]]

\* update_proto raises (AttributeError at the first append) unless the bank is a
\* list of deques; with no label there is no append
UpdateRaises(kind, labels) == kind # "deque" /\ UniqueLabels(labels) # {}

NoBank == <<>>
NoHistory == [c \in Classes |-> <<>>]

\* ProtoEstimator(dim, class_num, memory_length): every class seeded with Ave[cls] = 0
FreshBank(maxlen) == [c \in Classes |-> NewDeque(<<FZero>>, maxlen)]

\* checkpoint['MemoryBank']: a tensor [class_num, L, dim]
SnapshotBanks ==
    {[c \in Classes |-> [i \in 1..L |-> v]] : L \in 1..MaxSnapLen, v \in {FZero, FOne}}

ProtoInitFresh ==
    /\ bankKind = "deque"
    /\ MemoryBank = FreshBank(memory_length)

ProtoInitResume ==
    \/ /\ bankKind = "tensor"
       /\ MemoryBank \in SnapshotBanks
    \/ /\ bankKind = "none"
       /\ MemoryBank = NoBank

ProtoIdle ==
    /\ pe_calls = 0
    /\ pe_features = <<>>
    /\ pe_labels = <<>>
    /\ pe_result = "none"
    /\ appended = NoHistory

\* -------------------------------------------------------------------- DACS
Unset == <<>>

\* pixels of a batch of cfg.batch samples of cfg.rows rows (one column), sample-major
NumPixels(c) == c.batch * c.rows
Pixels(c) == 1..NumPixels(c)
Samples(c) == 1..c.batch
SampleOf(c, p) == ((p - 1) \div c.rows) + 1
\* 0-based row index of pixel p inside its sample
RowOf(c, p) == (p - 1) % c.rows

\* confidence levels of the teacher's soft-max maximum; the threshold is level 1
ConfLevels == {0, 1, 2}
\* unweighted per-pixel cross-entropy values the student's head produces
CEValues == {1, 2}
\* values of the unscaled teacher/student KL divergence
KLValues == {1, 2}

\* ps_large_p = pseudo_prob.ge(pseudo_threshold)
PsLargeP_Strict(c, prob) == [p \in Pixels(c) |-> prob[p] > c.pseudo_threshold]
PsLargeP(c, prob) == [p \in Pixels(c) |-> prob[p] >= c.pseudo_threshold]

\* torch.sum(ps_large_p).item()
CountTrue(c, flags) == Cardinality({p \in Pixels(c) : flags[p]})

\* pseudo_weight_ = torch.sum(ps_large_p).item() / np.size(pseudo_label)
TrustScalar(c, n) == Frac(n, NumPixels(c))

\* rows the slices [:, :top, :] and [:, -bottom:, :] select (Python slice semantics)
InTopBand(c, p) == c.ignore_top > 0 /\ RowOf(c, p) < c.ignore_top
InBottomBand_OffByOne(c, p) ==
    c.ignore_bottom > 0 /\ RowOf(c, p) > c.rows - c.ignore_bottom
InBottomBand(c, p) ==
    c.ignore_bottom > 0 /\ RowOf(c, p) >= c.rows - c.ignore_bottom

\* pseudo_weight: the scalar broadcast, then the two bands zeroed
TrustWeightMap(c, scalar) ==
    [p \in Pixels(c) |->
        IF InTopBand(c, p) \/ InBottomBand(c, p) THEN FZero ELSE scalar]

\* gt_pixel_weight = torch.ones(pseudo_weight.shape)
GtPixelWeight(c) == [p \in Pixels(c) |-> FOne]

\* classes present in sample i of a label map
ClassesOf(c, lbl, i) == {lbl[p] : p \in {q \in Pixels(c) : SampleOf(c, q) = i}}

\* get_class_masks: per sample a subset of the classes present in its label map;
\* the mask is 1 where the label is one of the chosen classes
ClassChoices(c, lbl) ==
    {ch \in [Samples(c) -> SUBSET Classes] :
        \A i \in Samples(c) : ch[i] \subseteq ClassesOf(c, lbl, i)}
ClassMask(c, lbl, ch) ==
    [p \in Pixels(c) |-> IF lbl[p] \in ch[SampleOf(c, p)] THEN 1 ELSE 0]

\* strong_transform(target=stack((a, b))) with param['mix'] = mask: a where the mask
\* is 1, b where it is 0
OneMix(mask, a, b) == [p \in DOMAIN mask |-> IF mask[p] = 1 THEN a[p] ELSE b[p]]

\* mixed_lbl[i]: target=torch.stack((gt_semantic_seg[i][0], pseudo_label[i]))
MixedLabel(mask, gt, pl) == OneMix(mask, gt, pl)

\* pseudo_weight[i]: target=torch.stack((gt_pixel_weight[i], pseudo_weight[i]))
MixedWeight_Swapped(mask, gtw, pw) == OneMix(mask, pw, gtw)
MixedWeight(mask, gtw, pw) == OneMix(mask, gtw, pw)

\* the student's segmentation loss with a per-pixel weight: mean of weight * ce
WeightedSum(w, ce, sel) ==
    FSeqSum([k \in 1..Len(w) |-> IF k \in sel THEN FMul(w[k], <<ce[k], 1>>) ELSE FZero])
MixSegLoss(w, ce, sel) == FMul(WeightedSum(w, ce, sel), Frac(1, Len(w)))

\* kl_loss_trg = pseudo_weight_ * kl_loss_trg
KlLossTrg_Unscaled(scalar, kl) == <<kl, 1>>
KlLossTrg(scalar, kl) == FMul(scalar, <<kl, 1>>)

\* the gate of the contrastive loss
WarmedUp(it) == it >= start_distribution_iter

\* the locals of forward_train, before they are assigned
PixIdle ==
    /\ gt_semantic_seg = Unset
    /\ pseudo_prob = Unset
    /\ pseudo_label = Unset
    /\ n_trusted = 0
    /\ pseudo_weight_ = Unset
    /\ pseudo_weight = Unset
    /\ mix_mask = Unset
    /\ mixed_lbl = Unset
    /\ mixed_weight = Unset

LossIdle ==
    /\ mix_loss = Unset
    /\ mix_loss_trg = Unset
    /\ kl_div = 0
    /\ kl_loss_trg = Unset
    /\ upd_features = Unset
    /\ upd_labels = Unset

\* DACS.__init__: local_iter = 0, a fresh ProtoEstimator
DacsConstructed ==
    /\ local_iter = 0
    /\ pc = "idle"
    /\ outcome = "none"
    /\ raised_at = "none"
    /\ iter0 = 0
    /\ bank0 = MemoryBank
    /\ n_returned = 0
    /\ n_updates = 0
    /\ log_vars = {}
    /\ backward = {}
    /\ PixIdle
    /\ LossIdle

Config(b, r, top, bottom, fd, mi) ==
    [batch |-> b, rows |-> r, pseudo_threshold |-> 1, ignore_top |-> top,
     ignore_bottom |-> bottom, enable_fdist |-> fd, max_iters |-> mi]

\* a training session long enough to pass the warm-up, on the smallest batch; the
\* estimator's queue capacity (200 at line 110) is scaled down to 2
Init ==
    /\ memory_length = 2
    /\ ProtoInitFresh
    /\ ProtoIdle
    /\ cfg \in {Config(1, 1, 0, 0, fd, MaxIters) : fd \in BOOLEAN}
    /\ DacsConstructed

\* the first training step, on one sample of ImgH rows or on two samples
InitMix ==
    /\ memory_length = 2
    /\ ProtoInitFresh
    /\ ProtoIdle
    /\ cfg \in {Config(1, ImgH, top, bottom, FALSE, 1) : top \in 0..1, bottom \in 0..1}
           \cup {Config(2, 1, 0, 0, FALSE, 1), Config(2, 2, 1, 0, FALSE, 1)}
    /\ DacsConstructed

\* forward_train is entered: its arguments are bound, nothing is computed yet; the
\* runner calls it max_iters times and has no handler for an exception, so no call
\* follows one that raised (train_step, lines 148-150)
CallStep ==
    /\ pc = "idle"
    /\ outcome # "raised"
    /\ local_iter < cfg.max_iters
    /\ pc' = "teacher"
    /\ outcome' = "running"
    /\ raised_at' = "none"
    /\ iter0' = local_iter
    /\ bank0' = MemoryBank
    /\ n_updates' = 0
    /\ log_vars' = {}
    /\ backward' = {}
    /\ gt_semantic_seg' \in [Pixels(cfg) -> Classes]
    /\ pseudo_prob' = Unset
    /\ pseudo_label' = Unset
    /\ n_trusted' = 0
    /\ pseudo_weight_' = Unset
    /\ pseudo_weight' = Unset
    /\ mix_mask' = Unset
    /\ mixed_lbl' = Unset
    /\ mixed_weight' = Unset
    /\ mix_loss' = Unset
    /\ mix_loss_trg' = Unset
    /\ kl_div' = 0
    /\ kl_loss_trg' = Unset
    /\ upd_features' = Unset
    /\ upd_labels' = Unset
    /\ UNCHANGED <<pevars, cfg, local_iter, n_returned>>

\* phase 1: the teacher is rebuilt and its checkpoint loaded
TeacherPhase ==
    /\ pc = "teacher"
    /\ pc' = "source"
    /\ UNCHANGED <<pevars, cfg, local_iter, outcome, raised_at, iter0, bank0,
                   n_returned, n_updates, log_vars,
                   backward, pixvars, lossvars>>

\* phase 2: source forward pass, clean loss logged and back-propagated
SourcePhase ==
    /\ pc = "source"
    /\ pc' = "fdist"
    /\ log_vars' = log_vars \cup {"decode.loss_seg"}
    /\ backward' = backward \cup {"clean"}
    /\ UNCHANGED <<pevars, cfg, local_iter, outcome, raised_at, iter0, bank0,
                   n_returned, n_updates, pixvars,
                   lossvars>>

\* phase 3: ImageNet feature distance, when enabled
FdistPhase ==
    /\ pc = "fdist"
    /\ pc' = "pseudo"
    /\ IF cfg.enable_fdist
       THEN /\ log_vars' = log_vars \cup {"src.loss_imnet_feat_dist"}
            /\ backward' = backward \cup {"fdist"}
       ELSE UNCHANGED <<log_vars, backward>>
    /\ UNCHANGED <<pevars, cfg, local_iter, outcome, raised_at, iter0, bank0,
                   n_returned, n_updates, pixvars,
                   lossvars>>

\* phase 4: teacher inference on the target batch, trust scalar and weight map
PseudoPhase ==
    /\ pc = "pseudo"
    /\ pc' = "mix"
    /\ \E prob \in [Pixels(cfg) -> ConfLevels], lbl \in [Pixels(cfg) -> Classes] :
         LET n == CountTrue(cfg, PsLargeP(cfg, prob)) IN
         /\ pseudo_prob' = prob
         /\ pseudo_label' = lbl
         /\ n_trusted' = n
         /\ pseudo_weight_' = TrustScalar(cfg, n)
         /\ pseudo_weight' = TrustWeightMap(cfg, TrustScalar(cfg, n))
    /\ UNCHANGED <<pevars, ctlvars_but_pc, gt_semantic_seg, mix_mask, mixed_lbl,
                   mixed_weight, lossvars>>

\* phase 5: class mixing of labels and weights, sample by sample (the confidences
\* are not read after phase 4 and are released here)
MixPhase ==
    /\ pc = "mix"
    /\ pc' = "mix_train"
    /\ \E ch \in ClassChoices(cfg, gt_semantic_seg) :
         LET mask == ClassMask(cfg, gt_semantic_seg, ch) IN
         /\ mix_mask' = mask
         /\ mixed_lbl' = MixedLabel(mask, gt_semantic_seg, pseudo_label)
         /\ mixed_weight' = MixedWeight(mask, GtPixelWeight(cfg), pseudo_weight)
    /\ pseudo_prob' = Unset
    /\ UNCHANGED <<pevars, ctlvars_but_pc, gt_semantic_seg, pseudo_label, n_trusted,
                   pseudo_weight_, pseudo_weight, lossvars>>

\* phase 6: student forward pass on the mixed batch, loss weighted by the mixed
\* weight map, logged and back-propagated; the per-pixel maps are not read by a
\* later loss and are released here
MixTrainPhase ==
    /\ pc = "mix_train"
    /\ pc' = "target"
    /\ \E ce \in [Pixels(cfg) -> CEValues] :
         /\ mix_loss' = MixSegLoss(mixed_weight, ce, Pixels(cfg))
         /\ mix_loss_trg' = MixSegLoss(mixed_weight, ce,
                                       {p \in Pixels(cfg) : mix_mask[p] = 0})
    /\ log_vars' = log_vars \cup {"mix.decode.loss_seg"}
    /\ backward' = backward \cup {"mix"}
    /\ gt_semantic_seg' = Unset
    /\ pseudo_weight' = Unset
    /\ mix_mask' = Unset
    /\ mixed_lbl' = Unset
    /\ mixed_weight' = Unset
    /\ UNCHANGED <<pevars, cfg, local_iter, outcome, raised_at, iter0, bank0,
                   n_returned, n_updates,
                   pseudo_prob, pseudo_label, n_trusted, pseudo_weight_, kl_div, kl_loss_trg,
                   upd_features, upd_labels>>

\* phase 7a: student and teacher forward passes on the (augmented) target batch
\* (the mixed loss has been back-propagated and is not read again: released here)
TargetPhase ==
    /\ pc = "target"
    /\ pc' = "bank"
    /\ mix_loss' = Unset
    /\ mix_loss_trg' = Unset
    /\ UNCHANGED <<pevars, cfg, local_iter, outcome, raised_at, iter0, bank0,
                   n_returned, n_updates, log_vars,
                   backward, pixvars, kl_div, kl_loss_trg, upd_features, upd_labels>>

\* the pixels contrast_preparations keeps, in order
RECURSIVE KeptSeq(_, _, _)
KeptSeq(f, keep, n) ==
    IF n = 0 THEN <<>>
    ELSE IF n \in keep THEN Append(KeptSeq(f, keep, n - 1), f[n])
         ELSE KeptSeq(f, keep, n - 1)

\* phase 7b: the memory bank is updated from the teacher's target features and the
\* pseudo-labels of the pixels contrast_preparations keeps
BankPhase ==
    /\ pc = "bank"
    /\ pc' = "contrast"
    /\ \E keep \in SUBSET Pixels(cfg), feat \in [Pixels(cfg) -> FeatValues] :
         LET f == KeptSeq(feat, keep, NumPixels(cfg))
             l == KeptSeq(pseudo_label, keep, NumPixels(cfg))
         IN  /\ upd_features' = f
             /\ upd_labels' = l
             /\ MemoryBank' = update_proto(MemoryBank, f, l, memory_length)
    /\ n_updates' = n_updates + 1
    /\ pseudo_label' = Unset
    /\ UNCHANGED <<memory_length, bankKind, pe_calls, pe_features, pe_labels, pe_result,
                   appended, cfg, local_iter, outcome, raised_at, iter0, bank0, n_returned,
                   log_vars, backward, gt_semantic_seg, pseudo_prob, n_trusted,
                   pseudo_weight_, pseudo_weight, mix_mask, mixed_lbl, mixed_weight,
                   mix_loss, mix_loss_trg, kl_div, kl_loss_trg>>

\* phase 8: the contrastive loss, once the warm-up has elapsed; its log is discarded
\* (bank_contrastive reads the bank handed to it and leaves it as it is)
ContrastPhase_UpdatesBank ==
    /\ pc = "contrast"
    /\ pc' = "kl"
    /\ backward' = IF WarmedUp(local_iter) THEN backward \cup {"contrastive"}
                   ELSE backward
    /\ MemoryBank' = update_proto(MemoryBank, upd_features, upd_labels, memory_length)
    /\ n_updates' = n_updates + 1
    /\ UNCHANGED <<memory_length, bankKind, pe_calls, pe_features, pe_labels, pe_result,
                   appended, cfg, local_iter, outcome, raised_at, iter0, bank0, n_returned,
                   log_vars, pixvars, lossvars>>
ContrastPhase ==
    /\ pc = "contrast"
    /\ pc' = "kl"
    /\ backward' = IF WarmedUp(local_iter) THEN backward \cup {"contrastive"}
                   ELSE backward
    /\ UNCHANGED <<pevars, cfg, local_iter, outcome, raised_at, iter0, bank0,
                   n_returned, n_updates, log_vars,
                   pixvars, lossvars>>

\* phase 9: the target KL loss scaled by the trust scalar; its log is discarded
KlPhase ==
    /\ pc = "kl"
    /\ pc' = "finish"
    /\ \E kl \in KLValues :
         /\ kl_div' = kl
         /\ kl_loss_trg' = KlLossTrg(pseudo_weight_, kl)
    /\ backward' = backward \cup {"kl"}
    /\ UNCHANGED <<pevars, cfg, local_iter, outcome, raised_at, iter0, bank0,
                   n_returned, n_updates, log_vars,
                   pixvars, mix_loss, mix_loss_trg, upd_features, upd_labels>>

\* phase 10: debug images, local_iter += 1, return log_vars
FinishPhase_KeepsIter ==
    /\ pc = "finish"
    /\ pc' = "idle"
    /\ outcome' = "returned"
    /\ n_returned' = n_returned + 1
    /\ gt_semantic_seg' = Unset
    /\ pseudo_prob' = Unset
    /\ pseudo_label' = Unset
    /\ n_trusted' = 0
    /\ pseudo_weight_' = Unset
    /\ pseudo_weight' = Unset
    /\ mix_mask' = Unset
    /\ mixed_lbl' = Unset
    /\ mixed_weight' = Unset
    /\ mix_loss' = Unset
    /\ mix_loss_trg' = Unset
    /\ kl_div' = 0
    /\ kl_loss_trg' = Unset
    /\ UNCHANGED <<pevars, cfg, local_iter, raised_at, iter0, bank0, n_updates, log_vars,
                   backward, upd_features, upd_labels>>
FinishPhase ==
    /\ pc = "finish"
    /\ pc' = "idle"
    /\ local_iter' = local_iter + 1
    /\ outcome' = "returned"
    /\ n_returned' = n_returned + 1
    /\ gt_semantic_seg' = Unset
    /\ pseudo_prob' = Unset
    /\ pseudo_label' = Unset
    /\ n_trusted' = 0
    /\ pseudo_weight_' = Unset
    /\ pseudo_weight' = Unset
    /\ mix_mask' = Unset
    /\ mixed_lbl' = Unset
    /\ mixed_weight' = Unset
    /\ mix_loss' = Unset
    /\ mix_loss_trg' = Unset
    /\ kl_div' = 0
    /\ kl_loss_trg' = Unset
    /\ UNCHANGED <<pevars, cfg, raised_at, iter0, bank0, n_updates, log_vars, backward,
                   upd_features, upd_labels>>

\* a collaborator called in the current phase raises: forward_train is left at once,
\* its locals are gone, nothing is undone and nothing is returned
Raise_CountsIter ==
    /\ pc # "idle"
    /\ pc' = "idle"
    /\ outcome' = "raised"
    /\ raised_at' = pc
    /\ local_iter' = local_iter + 1
    /\ gt_semantic_seg' = Unset
    /\ pseudo_prob' = Unset
    /\ pseudo_label' = Unset
    /\ n_trusted' = 0
    /\ pseudo_weight_' = Unset
    /\ pseudo_weight' = Unset
    /\ mix_mask' = Unset
    /\ mixed_lbl' = Unset
    /\ mixed_weight' = Unset
    /\ mix_loss' = Unset
    /\ mix_loss_trg' = Unset
    /\ kl_div' = 0
    /\ kl_loss_trg' = Unset
    /\ UNCHANGED <<pevars, cfg, iter0, bank0,
                   n_returned, n_updates, log_vars, backward, upd_features,
                   upd_labels>>
Raise ==
    /\ pc # "idle"
    /\ pc' = "idle"
    /\ outcome' = "raised"
    /\ raised_at' = pc
    /\ gt_semantic_seg' = Unset
    /\ pseudo_prob' = Unset
    /\ pseudo_label' = Unset
    /\ n_trusted' = 0
    /\ pseudo_weight_' = Unset
    /\ pseudo_weight' = Unset
    /\ mix_mask' = Unset
    /\ mixed_lbl' = Unset
    /\ mixed_weight' = Unset
    /\ mix_loss' = Unset
    /\ mix_loss_trg' = Unset
    /\ kl_div' = 0
    /\ kl_loss_trg' = Unset
    /\ UNCHANGED <<pevars, cfg, local_iter, iter0, bank0,
                   n_returned, n_updates, log_vars, backward,
                   upd_features, upd_labels>>

\* the phases of a call, in program order
Phases ==
    \/ TeacherPhase
    \/ SourcePhase
    \/ FdistPhase
    \/ PseudoPhase
    \/ MixPhase
    \/ MixTrainPhase
    \/ TargetPhase
    \/ BankPhase
    \/ ContrastPhase
    \/ KlPhase
    \/ FinishPhase

Next ==
    \/ CallStep
    \/ Phases
    \/ Raise

Spec == Init /\ [][Next]_vars

SpecMix == InitMix /\ [][Next]_vars

\* ------------------------------------------- the ProtoEstimator on its own
InitProto ==
    /\ memory_length \in 1..MaxMemLen
    /\ (ProtoInitFresh \/ ProtoInitResume)
    /\ ProtoIdle
    /\ cfg = Config(1, 1, 0, 0, FALSE, 0)
    /\ DacsConstructed

\* one call estimator.update_proto(features, labels)
UpdateProtoCall ==
    /\ pe_calls < MaxCalls
    /\ \E n \in BatchSizes :
         \E f \in [1..n -> FeatValues], l \in [1..n -> Classes] :
            /\ pe_features' = f
            /\ pe_labels' = l
            /\ pe_calls' = pe_calls + 1
            /\ IF UpdateRaises(bankKind, l)
               THEN /\ pe_result' = "raised"
                    /\ UNCHANGED <<MemoryBank, appended>>
               ELSE /\ pe_result' = "ok"
                    /\ MemoryBank' = IF bankKind = "deque"
                                     THEN update_proto(MemoryBank, f, l, memory_length)
                                     ELSE MemoryBank
                    /\ appended' = [c \in Classes |->
                                      IF c \in UniqueLabels(l)
                                      THEN Append(appended[c], ClassMean(f, l, c))
                                      ELSE appended[c]]
    /\ UNCHANGED <<memory_length, bankKind, ctlvars, pixvars, lossvars>>

NextProto == UpdateProtoCall

SpecProto == InitProto /\ [][NextProto]_vars

\* ------------------------------------------------------------------ claims
Front(q) == SubSeq(q, 1, Len(q) - 1)
LastK(q, k) == IF Len(q) <= k THEN q ELSE SubSeq(q, Len(q) - k + 1, Len(q))

\* the features of the pixels labelled c, in batch order
RECURSIVE SelectClass(_, _, _)
SelectClass(features, labels, c) ==
    IF features = <<>> THEN <<>>
    ELSE IF Head(labels) = c
         THEN <<Head(features)>> \o SelectClass(Tail(features), Tail(labels), c)
         ELSE SelectClass(Tail(features), Tail(labels), c)

\* arithmetic mean of a non-empty sequence of numbers
BatchMean(s) == Frac(SeqSum(s), Len(s))

\* C1: in every reachable state of a ProtoEstimator, resumed or not, every class's
\* MemoryBank queue holds at most memory_length vectors.
C1_QueueWithinCapacity ==
    \A c \in DOMAIN MemoryBank : Len(MemoryBank[c]) <= memory_length

\* C2: once update_proto has appended more than memory_length vectors to a class,
\* the class's queue is exactly the most recent memory_length of them, oldest first.
C2_Fifo ==
    \A c \in Classes :
        Len(appended[c]) > memory_length
            => /\ c \in DOMAIN MemoryBank
               /\ MemoryBank[c] = LastK(appended[c], memory_length)

\* memory_length 3 and a class that received v1, v2, v3, v4 (neighbours differing):
\* its queue is v2, v3, v4
C2_Witness ==
    \E c \in Classes :
        /\ memory_length = 3
        /\ Len(appended[c]) = 4
        /\ appended[c][1] # appended[c][2]
        /\ appended[c][2] # appended[c][3]
        /\ appended[c][3] # appended[c][4]
        /\ MemoryBank[c] = <<appended[c][2], appended[c][3], appended[c][4]>>

\* C3: in every reachable state every class id 0..class_num-1 has a MemoryBank queue
\* and the queue is non-empty, so reading it never fails.
C3_QueuesReadable ==
    /\ bankKind # "none"
    /\ \A c \in Classes : c \in DOMAIN MemoryBank /\ Len(MemoryBank[c]) >= 1

\* C4: a call update_proto(features, labels) that returns appends exactly one vector,
\* the mean of the class's features in the batch, to the queue of every class that
\* occurs in labels (evicting the oldest entry of a full queue), and leaves the queue
\* of every other class as it was; a call that raises changes no queue.
C4_AppendsMeanOnly ==
    [][pe_calls' = pe_calls + 1 =>
        IF pe_result' = "ok"
        THEN \A c \in DOMAIN MemoryBank :
                IF \E i \in 1..Len(pe_labels') : pe_labels'[i] = c
                THEN /\ Len(MemoryBank'[c]) >= 1
                     /\ MemoryBank'[c][Len(MemoryBank'[c])]
                            = BatchMean(SelectClass(pe_features', pe_labels', c))
                     /\ Front(MemoryBank'[c])
                            = (IF Len(MemoryBank[c]) < memory_length
                               THEN MemoryBank[c] ELSE Tail(MemoryBank[c]))
                ELSE MemoryBank'[c] = MemoryBank[c]
        ELSE MemoryBank' = MemoryBank]_vars

\* a returned call whose batch holds two different features of class 0 and no pixel
\* of class 1, while class 1's queue already holds a prototype
C4_Witness ==
    /\ pe_result = "ok"
    /\ pe_labels = <<0, 0>>
    /\ pe_features = <<1, 2>>
    /\ bankKind = "deque"
    /\ MemoryBank[0][Len(MemoryBank[0])] = <<3, 2>>
    /\ Len(appended[1]) >= 1
    /\ MemoryBank[1][Len(MemoryBank[1])] = appended[1][Len(appended[1])]

\* phases in which the call has not yet written the memory bank, and the later ones
BeforeBankWrite ==
    {"teacher", "source", "fdist", "pseudo", "mix", "mix_train", "target", "bank"}
AfterBankWrite == {"contrast", "kl", "finish"}

\* C5: for every call of forward_train that returns, the contrastive loss term is in
\* the returned loss set exactly when the iteration counter at the call was at least
\* start_distribution_iter.
C5_ContrastiveReturnedIffWarm ==
    outcome = "returned"
        => (("contrastive loss" \in log_vars) <=> (iter0 >= start_distribution_iter))

\* what the code does keep of C5: the contrastive loss is computed and
\* back-propagated exactly when the counter at the call has reached the threshold
ContrastiveBackwardIffWarm ==
    pc \in {"kl", "finish"} \/ outcome = "returned"
        => (("contrastive" \in backward) <=> (iter0 >= start_distribution_iter))

\* C6 as claimed: a call that raises leaves the iteration counter and the memory bank
\* as they were when the call began.
C6_AllOrNothing ==
    outcome = "raised" => (local_iter = iter0 /\ MemoryBank = bank0)

\* C6 amended: a call that raises leaves the iteration counter as it was; the memory
\* bank is as it was when the raise comes before the bank update of phase 7, and a
\* raise in a later phase leaves the bank as phase 7 wrote it (one mean appended to
\* each class among the update's labels), not rolled back.
C6_CounterKeptBankNotRolledBack ==
    outcome = "raised" =>
        /\ local_iter = iter0
        /\ raised_at \in BeforeBankWrite => (MemoryBank = bank0 /\ upd_labels = Unset)
        /\ raised_at \in AfterBankWrite =>
             \A c \in Classes :
                IF \E i \in 1..Len(upd_labels) : upd_labels[i] = c
                THEN /\ MemoryBank[c][Len(MemoryBank[c])]
                            = BatchMean(SelectClass(upd_features, upd_labels, c))
                     /\ Front(MemoryBank[c])
                            = (IF Len(bank0[c]) < memory_length
                               THEN bank0[c] ELSE Tail(bank0[c]))
                ELSE MemoryBank[c] = bank0[c]

\* a call in its second or later iteration that raised in the contrastive phase,
\* after phase 7 had changed the bank
C6_Witness ==
    /\ outcome = "raised"
    /\ raised_at = "contrast"
    /\ local_iter >= 1
    /\ MemoryBank # bank0

\* C7: at every pixel of every sample the mixed label is the source label where the
\* sample's mix mask is 1 and the pseudo-label where it is 0, and the mixed weight is
\* 1 where the mask is 1 and the trust weight where it is 0.
C7_MixFollowsMask ==
    mix_mask # Unset =>
        \A p \in Pixels(cfg) :
            /\ mix_mask[p] \in {0, 1}
            /\ mix_mask[p] = 1 =>
                  (mixed_lbl[p] = gt_semantic_seg[p] /\ mixed_weight[p] = FOne)
            /\ mix_mask[p] = 0 =>
                  (mixed_lbl[p] = pseudo_label[p] /\ mixed_weight[p] = pseudo_weight[p])

\* two samples with different masks: a source pixel whose label differs from the
\* pseudo-label, and in the other sample a target pixel with a weight strictly
\* between 0 and 1
C7_Witness ==
    /\ mix_mask # Unset
    /\ cfg.batch = 2
    /\ \E p, q \in Pixels(cfg) :
          /\ SampleOf(cfg, p) # SampleOf(cfg, q)
          /\ mix_mask[p] = 1
          /\ gt_semantic_seg[p] # pseudo_label[p]
          /\ mixed_lbl[p] = gt_semantic_seg[p]
          /\ mix_mask[q] = 0
          /\ gt_semantic_seg[q] # pseudo_label[q]
          /\ mixed_weight[q] \notin {FZero, FOne}

\* C8: the first ignore_top rows (when ignore_top > 0) and the last ignore_bottom rows
\* (when ignore_bottom > 0) of the trust weight map are exactly 0 whatever the
\* confidences, and every value of the map is 0 or the trust scalar.
C8_BordersZero ==
    pseudo_weight # Unset =>
        \A p \in Pixels(cfg) :
            /\ (cfg.ignore_top > 0 /\ RowOf(cfg, p) \in 0..(cfg.ignore_top - 1))
                  => pseudo_weight[p] = FZero
            /\ (cfg.ignore_bottom > 0
                    /\ RowOf(cfg, p) \in (cfg.rows - cfg.ignore_bottom)..(cfg.rows - 1))
                  => pseudo_weight[p] = FZero
            /\ pseudo_weight[p] \in {FZero, pseudo_weight_}

\* three rows, all confident, one border row at each end: only the middle row keeps
\* the scalar 1
C8_Witness ==
    /\ pseudo_weight # Unset
    /\ cfg.rows = 3 /\ cfg.ignore_top = 1 /\ cfg.ignore_bottom = 1
    /\ n_trusted = 3
    /\ pseudo_weight = <<FZero, FOne, FZero>>

\* C9: the trust scalar is (pixels with confidence >= pseudo_threshold) / (pixels of
\* the batch), counted over all rows, border rows included; it lies in [0, 1]; and
\* the distillation loss is the unscaled divergence times this scalar.
C9_TrustScalar ==
    /\ pseudo_prob # Unset =>
          n_trusted = Cardinality({p \in Pixels(cfg) :
                                      pseudo_prob[p] >= cfg.pseudo_threshold})
    /\ pseudo_weight_ # Unset =>
          /\ pseudo_weight_[1] * NumPixels(cfg) = n_trusted * pseudo_weight_[2]
          /\ pseudo_weight_[2] >= 1
          /\ 0 <= pseudo_weight_[1] /\ pseudo_weight_[1] <= pseudo_weight_[2]
    /\ kl_loss_trg # Unset =>
          kl_loss_trg[1] * pseudo_weight_[2]
              = pseudo_weight_[1] * kl_div * kl_loss_trg[2]

\* four pixels, one of them confident (exactly at the threshold) and lying in the
\* suppressed top row: the scalar is 1/4
C9_Witness ==
    /\ pseudo_prob # Unset
    /\ NumPixels(cfg) = 4
    /\ cfg.ignore_top = 1
    /\ pseudo_prob = <<1, 0, 0, 0>>
    /\ pseudo_weight_ = <<1, 4>>

\* C10: with no pixel at confidence >= pseudo_threshold (the call going on to its
\* last phase all the same) the trust scalar is 0, the trust weight map is 0 at every pixel, and the
\* target part of the mixed segmentation loss and the distillation loss are 0.
C10_ZeroTrust ==
    (n_trusted = 0 /\ pseudo_weight_ # Unset) =>
        /\ pseudo_weight_ = FZero
        /\ pseudo_weight # Unset => \A p \in Pixels(cfg) : pseudo_weight[p] = FZero
        /\ mix_loss_trg # Unset => mix_loss_trg = FZero
        /\ kl_loss_trg # Unset => kl_loss_trg = FZero

\* a call with no confident pixel at its last phase, the divergence being positive
C10_Witness ==
    /\ pc = "finish"
    /\ n_trusted = 0
    /\ pseudo_weight_ = FZero
    /\ kl_div > 0
    /\ kl_loss_trg = FZero
    /\ "mix" \in backward

\* a step of the model in which a call of forward_train returns
CallReturns == outcome = "running" /\ outcome' = "returned"

\* C11: the iteration counter is 0 after construction; a call of forward_train that
\* returns adds exactly 1 to it, in the step that ends the call (the finish phase);
\* every other step (entering a call, an earlier phase, a call that raises) leaves it
\* as it is; so it never decreases and always equals the number of calls that have
\* returned.
C11_CounterCountsReturns ==
    /\ local_iter = 0
    /\ [](local_iter = n_returned /\ local_iter >= iter0)
    /\ [][ /\ local_iter' >= local_iter
           /\ CallReturns => /\ pc = "finish"
                             /\ pc' = "idle"
                             /\ local_iter' = local_iter + 1
           /\ ~CallReturns => local_iter' = local_iter ]_vars

C11_Witness ==
    /\ pc = "idle"
    /\ outcome = "returned"
    /\ n_returned = 3
    /\ local_iter = 3
    /\ iter0 = 2

\* the bank the call's one update_proto call leaves behind
BankAfterUpdate == update_proto(bank0, upd_features, upd_labels, memory_length)

\* a step of the model in which bank_contrastive reads the bank
ContrastiveReads == "contrastive" \in backward' /\ "contrastive" \notin backward

\* C12: in every call of forward_train, before and after the warm-up alike, no
\* update_proto call has been made and the bank is the one the call began with until
\* the memory-bank-update phase; from the end of that phase to the return exactly one
\* update_proto call has been made and the bank is its result; the bank changes in no
\* other step; and when the contrastive loss reads the bank that one update is done
\* and the read leaves the bank as it is.
C12_BankWrittenOnceBeforeRead ==
    /\ [](/\ pc \in BeforeBankWrite => (n_updates = 0 /\ MemoryBank = bank0)
          /\ (pc \in AfterBankWrite \/ outcome = "returned")
                => (n_updates = 1 /\ MemoryBank = BankAfterUpdate))
    /\ [][ /\ MemoryBank' # MemoryBank => (pc = "bank" /\ pc' = "contrast")
           /\ (pc # "idle" /\ n_updates' # n_updates) => (pc = "bank" /\ pc' = "contrast")
           /\ ContrastiveReads => /\ pc = "contrast"
                                  /\ n_updates = 1
                                  /\ MemoryBank = BankAfterUpdate
                                  /\ MemoryBank' = MemoryBank ]_vars

C12_Witness ==
    /\ "contrastive" \in backward
    /\ iter0 >= start_distribution_iter
    /\ n_updates = 1
    /\ MemoryBank # bank0
    /\ MemoryBank = BankAfterUpdate

====
